---- MODULE Spec2Model ----
(***************************************************************************)
(* Research Discovery Agent: the job orchestrator of src/app.py.           *)
(*                                                                         *)
(* The committed database rows (one User, one Paper, one Analysis and the  *)
(* ResearchIdea rows of that analysis) are the shared state.  Every        *)
(* request handler is a process with its own database session: it reads    *)
(* the committed rows when it queries, and each db.commit() writes the     *)
(* attributes the handler assigned since its previous commit.  Handlers of *)
(* different requests interleave at their commits and external calls (the  *)
(* server handles requests in threads).                                    *)
(*                                                                         *)
(* The agents the handlers call are modelled on their own below the        *)
(* orchestrator: one run of SearcherAgent.research_ideas (searcher), one   *)
(* call of ProfilerAgent.analyze_description (profiler), and single calls  *)
(* of the searcher's pure helpers (call).                                  *)
(***************************************************************************)
EXTENDS Integers, Sequences, FiniteSets, TLC

VARIABLES user, paper, analysis, research_ideas, req, response, invocations,
          searcher, profiler, call

\* the state of the orchestrator, and the state of the agents
app == <<user, paper, analysis, research_ideas, req, response, invocations>>

agents == <<searcher, profiler, call>>

vars == <<user, paper, analysis, research_ideas, req, response, invocations,
          searcher, profiler, call>>

(* ------------------------------ bounds --------------------------------- *)

\* request handlers that can be in flight at the same time
MaxConc == 2

\* phase invocations (read or search) received in one behaviour
MaxInvocations == 3

(* ----------------------------- constants ------------------------------- *)

None == "None"

\* len(selected_idea_indices) != 3
RequiredSelection == 3

Slots == 1..MaxConc

(* ------------------------------ inputs --------------------------------- *)

\* data.get('topics', [])
TopicInputs == {<<>>, <<"nlp">>}

\* data.get('selected_ideas', [])
SelectionInputs == {<<>>, <<0, 1>>, <<0, 1, 2>>, <<2, 0, 3>>, <<-1, 0, 1>>}

\* the bodies of the read requests: job_id (absent, or the analysis id the
\* upload returned) and topics
ReadInputs ==
    {[job_id |-> "j1", topics |-> t] : t \in TopicInputs}
        \cup {[job_id |-> None, topics |-> <<"nlp">>]}

\* the bodies of the search requests: job_id and selected_ideas
SearchInputs ==
    {[job_id |-> "j1", selected_ideas |-> s] : s \in SelectionInputs}
        \cup {[job_id |-> None, selected_ideas |-> <<0, 1, 2>>]}

\* user.profile values: the profile JSON, told apart by version
Profiles == {"v1", "v2"}

(* ------------------- outcomes of the external calls -------------------- *)

\* extract_text_from_pdf(filepath): text, nothing, or an exception
ExtractOutcomes == {"text", "empty", "raise"}

\* ReaderAgent.analyze_paper: a result with n candidate ideas, or an exception
ReaderOutcomes == {"raise", "ideas3", "ideas4"}

ReaderIdeas(o) == IF o = "ideas3" THEN <<1, 2, 3>> ELSE <<1, 2, 3, 4>>

\* what the assessments of one idea come to: novelty and doability scores,
\* the topic-match score times 10, and the number of papers found
High == [novelty |-> 4, doability |-> 5, topic10 |-> 30, papers |-> 1]

Low == [novelty |-> 3, doability |-> 3, topic10 |-> 25, papers |-> 0]

\* the assessments of the 3 selected ideas, in input order
AssessmentOutcomes == {<<High, High, High>>, <<Low, High, High>>, <<High, Low, High>>}

(* ------------------------------ rows ----------------------------------- *)

\* a NULL JSON column is the empty sequence: the handlers only test such a
\* column for truth, and an empty list is as false as None

NoUser == [exists |-> FALSE, profile |-> None]

NoPaper == [exists |-> FALSE, user_id |-> None]

NoAnalysis ==
    [ exists |-> FALSE, status |-> None, progress |-> 0,
      error_message |-> None, selected_topics |-> <<>>,
      user_profile_snapshot |-> None, reader_output |-> <<>>,
      searcher_output |-> <<>>, completed_at |-> FALSE ]

IdleReq ==
    [ pc |-> "idle", kind |-> None, job_id |-> None, topics |-> <<>>,
      selected_ideas |-> <<>>, chosen |-> <<>>, results |-> <<>>,
      calls |-> {} ]

\* what the last step sent back, if it was the return of a phase handler:
\* the handler's thread and phase, the HTTP code, the 'error' text of the
\* body, and the external calls the handler made
NoResponse ==
    [slot |-> 0, kind |-> None, code |-> 0, error |-> None, calls |-> {}]

\* no agent is running
NoRun == [pc |-> "idle"]

\* the database after db.create_all() and no request in flight
AppInit ==
    /\ user = NoUser
    /\ paper = NoPaper
    /\ analysis = NoAnalysis
    /\ research_ideas = <<>>
    /\ req = [r \in Slots |-> IdleReq]
    /\ response = NoResponse
    /\ invocations = 0

Init ==
    /\ AppInit
    /\ searcher = NoRun
    /\ profiler = NoRun
    /\ call = NoRun

(* ----------------------- status and progress --------------------------- *)

\* the mutation a forgotten progress update would make
SetStatus_StatusOnly(a, status, progress) == [a EXCEPT !.status = status]

\* analysis.status = ...; analysis.progress = ... (assigned as a pair)
SetStatus(a, status, progress) ==
    [a EXCEPT !.status = status, !.progress = progress]

(* ------------------------ handler scaffolding --------------------------- *)

\* the handler returns jsonify(...), code; finally: db.close().  calls are
\* the external calls the handler made in the step that returns
Returned(r, code, error, calls) ==
    /\ req' = [req EXCEPT ![r] = IdleReq]
    /\ response' = [slot |-> r, kind |-> req[r].kind, code |-> code,
                    error |-> error, calls |-> req[r].calls \cup calls]

\* a return before anything was assigned or called
Reject(r, code, error) ==
    /\ Returned(r, code, error, {})
    /\ UNCHANGED <<analysis, research_ideas>>

\* the mutation of an error handler that answers 500 and records nothing
ErrorHandler_Silent(r, calls) ==
    /\ Returned(r, 500, "exception", calls)
    /\ UNCHANGED <<analysis, research_ideas>>

\* the mutation of an error handler that also resets the progress
ErrorHandler_ResetProgress(r, calls) ==
    /\ analysis' = [analysis EXCEPT !.status = "error", !.progress = 0,
                                    !.error_message = "exception"]
    /\ Returned(r, 500, "exception", calls)
    /\ UNCHANGED research_ideas

\* except Exception as e: db.rollback(); analysis.status = 'error';
\* analysis.error_message = str(e); db.commit(); return 500
ErrorHandler(r, calls) ==
    /\ analysis' = [analysis EXCEPT !.status = "error",
                                    !.error_message = "exception"]
    /\ Returned(r, 500, "exception", calls)
    /\ UNCHANGED research_ideas

\* the handler goes on: nothing is sent back in this step
Continue(r, pc, calls) ==
    /\ req' = [req EXCEPT ![r].pc = pc, ![r].calls = @ \cup calls]
    /\ response' = NoResponse

Free(r) == req[r].pc = "idle"

\* a request arrives and is handed to a free handler thread
Receive(r, kind, job_id, topics, selected_ideas) ==
    /\ invocations < MaxInvocations
    /\ Free(r)
    /\ \A q \in Slots : q < r => ~Free(q)
    /\ req' = [req EXCEPT ![r] =
                 [IdleReq EXCEPT !.pc = "start", !.kind = kind,
                                 !.job_id = job_id, !.topics = topics,
                                 !.selected_ideas = selected_ideas]]
    /\ invocations' = invocations + 1
    /\ response' = NoResponse
    /\ UNCHANGED <<user, paper, analysis, research_ideas>>

ReceiveRead(r) ==
    \E data \in ReadInputs :
       Receive(r, "read", data.job_id, data.topics, <<>>)

ReceiveSearch(r) ==
    \E data \in SearchInputs :
       Receive(r, "search", data.job_id, <<>>, data.selected_ideas)

(* --------------------------- user profile ------------------------------- *)

\* POST /api/users/profile, method 'manual': the profiler's profile is stored
create_user_profile ==
    /\ ~user.exists
    /\ user' = [exists |-> TRUE, profile |-> "v1"]
    /\ response' = NoResponse
    /\ UNCHANGED <<paper, analysis, research_ideas, req, invocations>>

\* the mutation of the update that also rewrites a stored snapshot
update_user_profile_Coupled ==
    /\ user.exists
    /\ \E p \in Profiles \ {user.profile} :
         /\ user' = [user EXCEPT !.profile = p]
         /\ analysis' = IF analysis.user_profile_snapshot # None
                        THEN [analysis EXCEPT !.user_profile_snapshot = p]
                        ELSE analysis
    /\ response' = NoResponse
    /\ UNCHANGED <<paper, research_ideas, req, invocations>>

\* PUT /api/users/<id>/profile: re-analysis or direct overwrite
update_user_profile ==
    /\ user.exists
    /\ \E p \in Profiles \ {user.profile} : user' = [user EXCEPT !.profile = p]
    /\ response' = NoResponse
    /\ UNCHANGED <<paper, analysis, research_ideas, req, invocations>>

(* ------------------------------ upload ---------------------------------- *)

\* POST /api/upload: Paper and Analysis rows are created in one commit
upload_paper ==
    /\ ~analysis.exists
    /\ \E uid \in {None, "u1"} :
         /\ uid # None => user.exists
         /\ paper' = [exists |-> TRUE, user_id |-> uid]
    /\ analysis' = SetStatus([NoAnalysis EXCEPT !.exists = TRUE], "uploaded", 10)
    /\ response' = NoResponse
    /\ UNCHANGED <<user, research_ideas, req, invocations>>

(* ---------------------------- read phase -------------------------------- *)

\* the mutation a dropped topics check would make
TopicsSupplied_Unchecked(topics) == TRUE

\* if not topics: return 400
TopicsSupplied(topics) == topics # <<>>

\* if paper.user_id: user = ...; if user and user.profile: snapshot = profile
ProfileSnapshot(a) ==
    IF paper.user_id # None /\ user.exists /\ user.profile # None
    THEN [a EXCEPT !.user_profile_snapshot = user.profile]
    ELSE a

\* analyze_paper_read up to its first commit: validation, then
\* selected_topics, status 'parsing', progress 20 and the profile snapshot.
\* The Paper row is created with the Analysis row and no handler deletes
\* it, so 'Paper not found' is never raised.
ReadValidate(r) ==
    /\ req[r].pc = "start" /\ req[r].kind = "read"
    /\ IF req[r].job_id = None
       THEN Reject(r, 400, "job_id is required")
       ELSE IF ~analysis.exists
       THEN Reject(r, 404, "Analysis not found")
       ELSE IF ~TopicsSupplied(req[r].topics)
       THEN Reject(r, 400, "At least one topic must be selected")
       ELSE /\ analysis' = ProfileSnapshot(
                  SetStatus([analysis EXCEPT !.selected_topics = req[r].topics],
                            "parsing", 20))
            /\ Continue(r, "parsing", {})
            /\ UNCHANGED research_ideas
    /\ UNCHANGED <<user, paper, invocations>>

\* the mutation of returning the 500 without recording the error
ExtractionFailed_NotRecorded(r) ==
    /\ Returned(r, 500, "Failed to extract text from PDF", {"extract_text"})
    /\ UNCHANGED <<analysis, research_ideas>>

\* if not paper_text: status 'error', the message, commit, return 500
ExtractionFailed(r) ==
    /\ analysis' = [analysis EXCEPT
                      !.status = "error",
                      !.error_message = "Failed to extract text from PDF"]
    /\ Returned(r, 500, "Failed to extract text from PDF", {"extract_text"})
    /\ UNCHANGED research_ideas

\* extract_text_from_pdf, then status 'reading', progress 40
ReadExtract(r) ==
    /\ req[r].pc = "parsing"
    /\ \E o \in ExtractOutcomes :
         CASE o = "raise" -> ErrorHandler(r, {"extract_text"})
           [] o = "empty" -> ExtractionFailed(r)
           [] o = "text" ->
                /\ analysis' = SetStatus(analysis, "reading", 40)
                /\ Continue(r, "reading", {"extract_text"})
                /\ UNCHANGED research_ideas
    /\ UNCHANGED <<user, paper, invocations>>

\* what the handler commits after reader.analyze_paper returned
StoreReaderOutput(a, reader_results) ==
    SetStatus([a EXCEPT !.reader_output = reader_results], "ideas_ready", 60)

\* reader.analyze_paper, then reader_output, status 'ideas_ready', progress 60
ReadGenerate(r) ==
    /\ req[r].pc = "reading"
    /\ \E o \in ReaderOutcomes :
         IF o = "raise"
         THEN ErrorHandler(r, {"analyze_paper"})
         ELSE /\ analysis' = StoreReaderOutput(analysis, ReaderIdeas(o))
              /\ Returned(r, 200, None, {"analyze_paper"})
              /\ UNCHANGED research_ideas
    /\ UNCHANGED <<user, paper, invocations>>

(* --------------------------- idea scoring ------------------------------- *)

\* composite_score = 0.3*novelty + 0.4*doability + 0.3*topic_match, times 100
CompositeScore100(a) == 30 * a.novelty + 40 * a.doability + 3 * a.topic10

\* one entry of scored_ideas
ScoredIdea(idea, a) ==
    [ idea |-> idea, novelty_score |-> a.novelty,
      doability_score |-> a.doability, topic10 |-> a.topic10,
      composite100 |-> CompositeScore100(a), papers |-> a.papers ]

\* the mutation of the sort that puts an item before its equals
RECURSIVE InsertDesc_TiesFirst(_, _)
InsertDesc_TiesFirst(x, s) ==
    IF s = <<>> THEN <<x>>
    ELSE IF Head(s).composite100 > x.composite100
         THEN <<Head(s)>> \o InsertDesc_TiesFirst(x, Tail(s))
         ELSE <<x>> \o s

\* list.sort(key=composite_score, reverse=True): stable, so an item goes
\* behind every item already placed whose score is at least its own
RECURSIVE InsertDesc(_, _)
InsertDesc(x, s) ==
    IF s = <<>> THEN <<x>>
    ELSE IF Head(s).composite100 >= x.composite100
         THEN <<Head(s)>> \o InsertDesc(x, Tail(s))
         ELSE <<x>> \o s

RECURSIVE SortDesc(_)
SortDesc(s) ==
    IF s = <<>> THEN <<>>
    ELSE InsertDesc(s[Len(s)], SortDesc(SubSeq(s, 1, Len(s) - 1)))

\* SearcherAgent.research_ideas on the ideas the search phase passes: they
\* are exactly 3, so _select_diverse_top_3 returns the sorted list whole
ResearchIdeas(ideas, assessed) ==
    SortDesc([i \in 1..Len(ideas) |-> ScoredIdea(ideas[i], assessed[i])])

(* --------------------------- search phase ------------------------------- *)

\* not selected_idea_indices or len(selected_idea_indices) != 3
SelectionCountOk(selected) == Len(selected) = RequiredSelection

\* the mutation of also letting a finished job be searched again
ReadyForSearch_OrComplete(a) == a.status \in {"ideas_ready", "complete"}

\* analysis.status != 'ideas_ready'
ReadyForSearch(a) == a.status = "ideas_ready"

\* the mutation of a missing lower bound
IndexInRange_NoLowerBound(idx, all_ideas) == idx < Len(all_ideas)

\* 0 <= idx < len(all_ideas)
IndexInRange(idx, all_ideas) == 0 <= idx /\ idx < Len(all_ideas)

\* all_ideas[idx]: a negative index counts from the end of the list
ListItem(list, idx) ==
    IF idx < 0 THEN list[Len(list) + idx + 1] ELSE list[idx + 1]

\* analyze_paper_search up to the status update: every check it makes
SearchValidate(r) ==
    /\ req[r].pc = "start" /\ req[r].kind = "search"
    /\ LET selected == req[r].selected_ideas
           all_ideas == analysis.reader_output
       IN  IF req[r].job_id = None
           THEN Reject(r, 400, "job_id is required")
           ELSE IF ~SelectionCountOk(selected)
           THEN Reject(r, 400, "Please select exactly 3 ideas")
           ELSE IF ~analysis.exists
           THEN Reject(r, 404, "Analysis not found")
           ELSE IF ~ReadyForSearch(analysis)
           THEN Reject(r, 400, "Analysis is not ready for search")
           ELSE IF all_ideas = <<>>
           THEN Reject(r, 400, "No ideas found")
           ELSE IF \E k \in 1..Len(selected) :
                      ~IndexInRange(selected[k], all_ideas)
           THEN Reject(r, 400, "Invalid idea index")
           ELSE /\ req' = [req EXCEPT
                             ![r].pc = "checked",
                             ![r].chosen = [k \in 1..Len(selected) |->
                                              ListItem(all_ideas, selected[k])]]
                /\ response' = NoResponse
                /\ UNCHANGED <<analysis, research_ideas>>
    /\ UNCHANGED <<user, paper, invocations>>

\* analysis.status = 'searching'; analysis.progress = 70; db.commit()
SearchCommit(r) ==
    /\ req[r].pc = "checked"
    /\ analysis' = SetStatus(analysis, "searching", 70)
    /\ Continue(r, "searching", {})
    /\ UNCHANGED <<user, paper, research_ideas, invocations>>

\* searcher.research_ideas(selected_ideas, analysis.selected_topics)
SearchResearch(r) ==
    /\ req[r].pc = "searching"
    /\ \/ ErrorHandler(r, {"research_ideas"})
       \/ \E assessed \in AssessmentOutcomes :
            /\ req' = [req EXCEPT
                         ![r].pc = "scored",
                         ![r].calls = @ \cup {"research_ideas"},
                         ![r].results = ResearchIdeas(req[r].chosen, assessed)]
            /\ response' = NoResponse
            /\ UNCHANGED <<analysis, research_ideas>>
    /\ UNCHANGED <<user, paper, invocations>>

\* the mutation of enumerate(...) without its start value 1
IdeaRows_FromZero(top_ideas) ==
    [k \in 1..Len(top_ideas) |->
       [ rank |-> k - 1, idea |-> top_ideas[k].idea,
         composite100 |-> top_ideas[k].composite100,
         references |-> top_ideas[k].papers ]]

\* for rank, idea_data in enumerate(final_results['top_ideas'], 1):
\* one ResearchIdea row, and its Reference rows, per ranked idea
IdeaRows(top_ideas) ==
    [k \in 1..Len(top_ideas) |->
       [ rank |-> k, idea |-> top_ideas[k].idea,
         composite100 |-> top_ideas[k].composite100,
         references |-> top_ideas[k].papers ]]

\* the mutation of the completion that stores no searcher output
MarkComplete_NoOutput(a, final_results) ==
    [SetStatus(a, "complete", 100) EXCEPT !.completed_at = TRUE]

\* searcher_output, status 'complete', progress 100, completed_at
MarkComplete(a, final_results) ==
    [SetStatus([a EXCEPT !.searcher_output = final_results], "complete", 100)
       EXCEPT !.completed_at = TRUE]

\* the mutation of the store whose failure leaves the rows it had added
SearchStore_RowsKept(r) ==
    /\ req[r].pc = "scored"
    /\ \/ /\ analysis' = [analysis EXCEPT !.status = "error",
                                           !.error_message = "exception"]
          /\ research_ideas' = research_ideas \o IdeaRows(req[r].results)
          /\ Returned(r, 500, "exception", {})
       \/ /\ analysis' = MarkComplete(analysis, req[r].results)
          /\ research_ideas' = research_ideas \o IdeaRows(req[r].results)
          /\ Returned(r, 200, None, {})
    /\ UNCHANGED <<user, paper, invocations>>

\* the rows are added and everything is committed at once; an exception
\* while the rows are built rolls all of it back
SearchStore(r) ==
    /\ req[r].pc = "scored"
    /\ \/ ErrorHandler(r, {})
       \/ /\ analysis' = MarkComplete(analysis, req[r].results)
          /\ research_ideas' = research_ideas \o IdeaRows(req[r].results)
          /\ Returned(r, 200, None, {})
    /\ UNCHANGED <<user, paper, invocations>>

(* --------------------------- specification ------------------------------ *)

\* the columns of the rows and the fields of a handler's request
TypeOK ==
    /\ user.exists \in BOOLEAN /\ user.profile \in Profiles \cup {None}
    /\ paper.exists \in BOOLEAN /\ paper.user_id \in {None, "u1"}
    /\ analysis.exists \in BOOLEAN
    /\ analysis.status \in {None, "pending", "uploaded", "parsing", "reading",
                            "ideas_ready", "searching", "complete", "error"}
    /\ analysis.progress \in 0..100
    /\ analysis.selected_topics \in TopicInputs
    /\ analysis.user_profile_snapshot \in Profiles \cup {None}
    /\ analysis.completed_at \in BOOLEAN
    /\ \A k \in 1..Len(research_ideas) : research_ideas[k].rank \in Nat
    /\ \A r \in Slots :
         /\ req[r].pc \in {"idle", "start", "parsing", "reading", "checked",
                           "searching", "scored"}
         /\ req[r].kind \in {None, "read", "search"}
         /\ req[r].calls \subseteq
              {"extract_text", "analyze_paper", "research_ideas"}
    /\ response.code \in {0, 200, 400, 404, 500}
    /\ invocations \in 0..MaxInvocations

Next ==
    \/ create_user_profile /\ UNCHANGED agents
    \/ update_user_profile /\ UNCHANGED agents
    \/ upload_paper /\ UNCHANGED agents
    \/ \E r \in Slots : ReceiveRead(r) /\ UNCHANGED agents
    \/ \E r \in Slots : ReceiveSearch(r) /\ UNCHANGED agents
    \/ \E r \in Slots : ReadValidate(r) /\ UNCHANGED agents
    \/ \E r \in Slots : ReadExtract(r) /\ UNCHANGED agents
    \/ \E r \in Slots : ReadGenerate(r) /\ UNCHANGED agents
    \/ \E r \in Slots : SearchValidate(r) /\ UNCHANGED agents
    \/ \E r \in Slots : SearchCommit(r) /\ UNCHANGED agents
    \/ \E r \in Slots : SearchResearch(r) /\ UNCHANGED agents
    \/ \E r \in Slots : SearchStore(r) /\ UNCHANGED agents

Spec == Init /\ [][Next]_vars

\* a step of the handler in thread r.  Every handler runs in its own
\* thread, and every external call it makes returns or raises, so a
\* handler that can take its next step eventually takes it
HandlerStep(r) ==
    /\ \/ ReadValidate(r) \/ ReadExtract(r) \/ ReadGenerate(r)
       \/ SearchValidate(r) \/ SearchCommit(r) \/ SearchResearch(r)
       \/ SearchStore(r)
    /\ UNCHANGED agents

\* phase invocations received in one behaviour of the fair specification
MaxFairInvocations == 2

\* the orchestrator with fair handlers
FairNext == Next /\ invocations' <= MaxFairInvocations

FairSpec ==
    /\ Init
    /\ [][FairNext]_vars
    /\ \A r \in Slots : WF_vars(HandlerStep(r))

(* ------------------------- text and JSON -------------------------------- *)

\* A str whose characters matter (a topic, a tag, a title) is the sequence
\* of its characters.  A reply of the language model is the sequence of its
\* tokens: a brace, a member of a JSON object, or a piece of prose.

\* str.lower() on the characters the inputs use
LowerChar(c) ==
    CASE c = "A" -> "a" [] c = "B" -> "b" [] c = "C" -> "c" [] c = "D" -> "d"
      [] c = "L" -> "l" [] c = "N" -> "n" [] c = "P" -> "p" [] OTHER -> c

Lower(s) == [i \in 1..Len(s) |-> LowerChar(s[i])]

\* sub in s
Contains(sub, s) ==
    \E i \in 0..(Len(s) - Len(sub)) : SubSeq(s, i + 1, i + Len(sub)) = sub

\* str.split(): the maximal runs of non-blank characters, in order
RECURSIVE SplitFrom(_, _, _)
SplitFrom(s, i, word) ==
    IF i > Len(s) THEN (IF word = <<>> THEN <<>> ELSE <<word>>)
    ELSE IF s[i] = " "
         THEN (IF word = <<>> THEN <<>> ELSE <<word>>) \o SplitFrom(s, i + 1, <<>>)
         ELSE SplitFrom(s, i + 1, Append(word, s[i]))

Split(s) == SplitFrom(s, 1, <<>>)

\* list[:n]
Take(list, n) == SubSeq(list, 1, IF Len(list) < n THEN Len(list) ELSE n)

\* content.find(tok) and content.rfind(tok): 0-based, -1 when absent
Find(content, tok) ==
    IF \E i \in 1..Len(content) : content[i] = tok
    THEN (CHOOSE i \in 1..Len(content) :
            content[i] = tok /\ \A j \in 1..(i - 1) : content[j] # tok) - 1
    ELSE -1

RFind(content, tok) ==
    IF \E i \in 1..Len(content) : content[i] = tok
    THEN (CHOOSE i \in 1..Len(content) :
            content[i] = tok /\ \A j \in (i + 1)..Len(content) : content[j] # tok) - 1
    ELSE -1

\* the members a reply can hold: token |-> key and value
JsonMember ==
    ("explored: No" :> [key |-> "explored", value |-> "No"]) @@
    ("novelty_score: 2" :> [key |-> "novelty_score", value |-> 2]) @@
    ("novelty_score: 4" :> [key |-> "novelty_score", value |-> 4]) @@
    ("novelty_score: 9" :> [key |-> "novelty_score", value |-> 9]) @@
    ("methodology: Standard" :> [key |-> "methodology", value |-> "Standard"]) @@
    ("doability_score: 5" :> [key |-> "doability_score", value |-> 5]) @@
    ("overview: Done" :> [key |-> "overview", value |-> "Done"]) @@
    ("expertise_level: Postdoc" :> [key |-> "expertise_level", value |-> "Postdoc"]) @@
    ("research_style: Chaotic" :> [key |-> "research_style", value |-> "Chaotic"]) @@
    ("research_areas: NLP" :> [key |-> "research_areas", value |-> <<"NLP">>])

\* json.loads(content) succeeds: an object of members between its braces
IsJson(content) ==
    /\ Len(content) >= 2
    /\ content[1] = "{" /\ content[Len(content)] = "}"
    /\ \A i \in 2..(Len(content) - 1) : content[i] \in DOMAIN JsonMember

\* json.loads(content): the dict of the members, a repeated key keeping
\* its last value
JsonLoads(content) ==
    LET at(k) == CHOOSE i \in 2..(Len(content) - 1) :
                   /\ JsonMember[content[i]].key = k
                   /\ \A j \in (i + 1)..(Len(content) - 1) :
                        JsonMember[content[j]].key # k
    IN  [k \in {JsonMember[content[i]].key : i \in 2..(Len(content) - 1)} |->
           JsonMember[content[at(k)]].value]

\* json_start = content.find('{'); json_end = content.rfind('}') + 1;
\* if json_start != -1 and json_end > json_start:
\*     content = content[json_start:json_end]
ExtractJson(content) ==
    LET json_start == Find(content, "{")
        json_end == RFind(content, "}") + 1
    IN  IF json_start # -1 /\ json_end > json_start
        THEN SubSeq(content, json_start + 1, json_end)
        ELSE content

\* self.model.generate_content(prompt): an exception, or a reply
Raises == [raised |-> TRUE, text |-> <<>>]

Reply(text) == [raised |-> FALSE, text |-> text]

(* --------------------------- searcher agent ----------------------------- *)

\* _search_papers(self, idea, limit=20, max_retries=3)
MaxRetries == 3

\* authors[:3]
MaxAuthors == 3

\* papers[:8]
MaxPapersKept == 8

\* time.sleep(3) after every idea
PacingWait == 3

\* the mutation of the backoff that grows by 2 s
BackoffWait_Linear(attempt) == (attempt + 1) * 2

\* wait_time = (2 ** attempt) * 2
BackoffWait(attempt) == (2 ^ attempt) * 2

\* papers of the search service: with an abstract and 4 authors, and
\* without an abstract
PaperA ==
    [ title |-> "A", abstract |-> "text", year |-> 2020, citationCount |-> 7,
      authors |-> <<"a1", "a2", "a3", "a4">> ]

PaperB ==
    [ title |-> "B", abstract |-> "", year |-> 2021, citationCount |-> 0,
      authors |-> <<"b1">> ]

\* what requests.get(url, params, timeout=10) comes to: a response with a
\* status code and the papers of its body, or an exception (a timeout)
HttpResponse(status, data) == [kind |-> "response", status |-> status, data |-> data]

HttpTimeout == [kind |-> "exception", status |-> 0, data |-> <<>>]

NoHttp == [kind |-> None, status |-> 0, data |-> <<>>]

SearchResponses ==
    { HttpResponse(429, <<>>), HttpResponse(404, <<>>), HttpResponse(500, <<>>),
      HttpTimeout,
      HttpResponse(200, <<>>), HttpResponse(200, <<PaperB, PaperA>>) }

\* the mutation of the retry test that retries every failed response
Retryable_AnyFailure(resp) == resp.kind = "response" /\ resp.status # 200

\* if response.status_code == 429: the only outcome that is retried.  An
\* exception of requests.get (a timeout) is no HTTPError and ends the call
\* in the last except clause; raise_for_status() raises an HTTPError whose
\* status is not 429, which ends it in the first
Retryable(resp) == resp.kind = "response" /\ resp.status = 429

\* the mutation of the formatting that keeps no paper
FormatPapers_None(data) == <<>>

\* formatted_papers: the papers with an abstract, with at most 3 authors
FormatPapers(data) ==
    LET format(p) ==
          [ title |-> p.title, abstract |-> p.abstract, year |-> p.year,
            citations |-> p.citationCount,
            authors |-> Take(p.authors, MaxAuthors) ]
        F[k \in 0..Len(data)] ==
          IF k = 0 THEN <<>>
          ELSE IF data[k].abstract # "" THEN Append(F[k - 1], format(data[k]))
               ELSE F[k - 1]
    IN  F[Len(data)]

\* the replies to the novelty, doability and synthesis prompts
NoveltyOutcomes ==
    { Raises,
      Reply(<<"prose">>),
      Reply(<<"{", "novelty_score: 4">>),
      Reply(<<"}", "novelty_score: 4", "{">>),
      Reply(<<"{", "explored: No", "}">>),
      Reply(<<"{", "novelty_score: 2", "}">>),
      Reply(<<"{", "novelty_score: 9", "}">>),
      Reply(<<"prose", "{", "explored: No", "novelty_score: 4", "}", "prose">>) }

DoabilityOutcomes ==
    { Raises,
      Reply(<<"{", "prose", "}">>),
      Reply(<<"{", "methodology: Standard", "}">>),
      Reply(<<"prose", "{", "doability_score: 5", "}">>) }

SynthesisOutcomes ==
    { Raises, Reply(<<"prose">>), Reply(<<"{", "overview: Done", "}">>) }

\* the mutation of the novelty fallback that scores a failure as 0
NoveltyFallback_Zero ==
    [ explored |-> "Unknown", maturity |-> "Unknown",
      gap |-> "Unable to assess", novelty_score |-> 0 ]

\* the dicts the except clauses return
NoveltyFallback ==
    [ explored |-> "Unknown", maturity |-> "Unknown",
      gap |-> "Unable to assess", novelty_score |-> 3 ]

DoabilityFallback ==
    [ data_availability |-> "Unknown", methodology |-> "Unknown",
      timeline |-> "Unknown", expertise_level |-> "Unknown",
      doability_score |-> 3 ]

SynthesisFallback ==
    [ overview |-> "Unable to synthesize", key_papers |-> <<>>,
      whats_missing |-> "Unable to assess",
      suggested_approach |-> "Unable to provide" ]

\* try: ... return json.loads(content)  except Exception: return fallback
ParseOr(out, fallback) ==
    IF out.raised \/ ~IsJson(ExtractJson(out.text)) THEN fallback
    ELSE JsonLoads(ExtractJson(out.text))

AssessNovelty(out) == ParseOr(out, NoveltyFallback)

AssessDoability(out) == ParseOr(out, DoabilityFallback)

SynthesizeLiterature(out) == ParseOr(out, SynthesisFallback)

\* matches / max(len(user_topics), 1) * 5, capped at 5, times 10.  matches
\* counts the tags (with their repetitions) that contain a topic or lie
\* within one; the inputs keep matches * 50 / len(user_topics) whole
MatchScore10(idea_tags, user_topics_lower) ==
    LET matches ==
          Cardinality({i \in 1..Len(idea_tags) :
             \E j \in 1..Len(user_topics_lower) :
                \/ Contains(user_topics_lower[j], idea_tags[i])
                \/ Contains(idea_tags[i], user_topics_lower[j])})
        score == (matches * 50) \div Len(user_topics_lower)
    IN  IF score < 50 THEN score ELSE 50

LowerAll(strs) == [i \in 1..Len(strs) |-> Lower(strs[i])]

\* the mutation of the topic match that looks at the tags before the topics
CalculateTopicMatch10_TagsFirst(idea, user_topics) ==
    IF idea.topic_tags = <<>> THEN 25
    ELSE IF user_topics = <<>> THEN 30
    ELSE MatchScore10(LowerAll(idea.topic_tags), LowerAll(user_topics))

\* _calculate_topic_match(idea, user_topics), times 10
CalculateTopicMatch10(idea, user_topics) ==
    IF user_topics = <<>> THEN 30
    ELSE IF idea.topic_tags = <<>> THEN 25
    ELSE MatchScore10(LowerAll(idea.topic_tags), LowerAll(user_topics))

\* the mutation of the score that swaps the weights of novelty and doability
ScoredItem_SwappedWeights(idea, papers, novelty_assessment, doability_assessment, topic10) ==
    [ idea |-> idea, papers |-> Take(papers, MaxPapersKept),
      novelty_assessment |-> novelty_assessment,
      doability_assessment |-> doability_assessment,
      topic10 |-> topic10,
      composite100 |-> 40 * novelty_assessment["novelty_score"]
                       + 30 * doability_assessment["doability_score"]
                       + 3 * topic10 ]

\* scored_ideas.append({...}) with its composite_score (times 100)
ScoredItem(idea, papers, novelty_assessment, doability_assessment, topic10) ==
    [ idea |-> idea, papers |-> Take(papers, MaxPapersKept),
      novelty_assessment |-> novelty_assessment,
      doability_assessment |-> doability_assessment,
      topic10 |-> topic10,
      composite100 |->
        CompositeScore100([ novelty |-> novelty_assessment["novelty_score"],
                            doability |-> doability_assessment["doability_score"],
                            topic10 |-> topic10 ]) ]

\* set(title.lower().split())
TitleWords(item) ==
    LET words == Split(Lower(item.idea.title))
    IN  {words[k] : k \in 1..Len(words)}

\* the mutations of the similarity test: 3 common words already too many,
\* and titles compared as they are written
TooSimilar_AtThree(item, selected) ==
    Cardinality(TitleWords(item) \cap TitleWords(selected)) >= 3

\* len(common_words) > 3
TooSimilar(item, selected) ==
    Cardinality(TitleWords(item) \cap TitleWords(selected)) > 3

\* the mutation of the selection that filters every list and keeps what
\* the filter leaves
SelectDiverseTop3_FilterOnly(scored_ideas) ==
    LET top[k \in 0..Len(scored_ideas)] ==
          IF k = 0 THEN <<>>
          ELSE IF k = 1 THEN <<scored_ideas[1]>>
          ELSE LET top_3 == top[k - 1]
               IN  IF Len(top_3) >= 3 THEN top_3
                   ELSE IF \E s \in 1..Len(top_3) : TooSimilar(scored_ideas[k], top_3[s])
                        THEN top_3
                        ELSE Append(top_3, scored_ideas[k])
    IN  top[Len(scored_ideas)]

\* the mutation of the selection without its fallback
SelectDiverseTop3_NoFallback(scored_ideas) ==
    LET top[k \in 0..Len(scored_ideas)] ==
          IF k = 0 THEN <<>>
          ELSE IF k = 1 THEN <<scored_ideas[1]>>
          ELSE LET top_3 == top[k - 1]
               IN  IF Len(top_3) >= 3 THEN top_3
                   ELSE IF \E s \in 1..Len(top_3) : TooSimilar(scored_ideas[k], top_3[s])
                        THEN top_3
                        ELSE Append(top_3, scored_ideas[k])
    IN  IF Len(scored_ideas) <= 3 THEN scored_ideas ELSE top[Len(scored_ideas)]

\* _select_diverse_top_3(scored_ideas): top[k] is top_3 after the first k
\* items of the list
SelectDiverseTop3(scored_ideas) ==
    LET top[k \in 0..Len(scored_ideas)] ==
          IF k = 0 THEN <<>>
          ELSE IF k = 1 THEN <<scored_ideas[1]>>
          ELSE LET top_3 == top[k - 1]
               IN  IF Len(top_3) >= 3 THEN top_3
                   ELSE IF \E s \in 1..Len(top_3) : TooSimilar(scored_ideas[k], top_3[s])
                        THEN top_3
                        ELSE Append(top_3, scored_ideas[k])
        greedy == top[Len(scored_ideas)]
    IN  IF Len(scored_ideas) <= 3 THEN scored_ideas
        ELSE IF Len(greedy) < 3 THEN Take(scored_ideas, 3)
        ELSE greedy

(* ------------------- one run of research_ideas -------------------------- *)

\* the 3 ideas the search phase passes, and the topics of the job
IdeaX == [title |-> <<"a", " ", "b">>, topic_tags |-> << <<"N", "L", "P">> >>]

IdeaY == [title |-> <<"c">>, topic_tags |-> <<>>]

IdeaZ == [title |-> <<"d">>, topic_tags |-> << <<"c", "v">> >>]

RunIdeaInputs == {<<IdeaX, IdeaY, IdeaZ>>}

RunTopicInputs == {<<>>, << <<"n", "l", "p">> >>}

NoDict == [k \in {} |-> 0]

\* research_ideas(ideas, user_topics) at its first statement: the locals
\* of the loop body and of _search_papers, and the lists being built
StartRun(ideas, user_topics) ==
    [ pc |-> "search", ideas |-> ideas, user_topics |-> user_topics,
      i |-> 1, attempt |-> 0, requests |-> 0, waits |-> <<>>,
      http |-> NoHttp, reply |-> Reply(<<>>), paces |-> <<>>, papers |-> <<>>,
      novelty_assessment |-> NoDict, doability_assessment |-> NoDict,
      scored_ideas |-> <<>>, top_ideas |-> <<>>, k |-> 0 ]

SearcherInit ==
    /\ AppInit
    /\ profiler = NoRun
    /\ call = NoRun
    /\ \E ideas \in RunIdeaInputs, user_topics \in RunTopicInputs :
         searcher = StartRun(ideas, user_topics)

\* one pass of the loop of _search_papers: a request, then a wait and the
\* next attempt on a 429, the formatted papers on a success, and [] on
\* any other status or exception and after the last attempt
SearchPapersRequest ==
    /\ searcher.pc = "search"
    /\ \E resp \in SearchResponses :
         LET rate_limited == Retryable(resp)
             success == resp.kind = "response" /\ resp.status = 200
             last_attempt == searcher.attempt + 1 >= MaxRetries
         IN  searcher' =
               [searcher EXCEPT
                  !.http = resp,
                  !.requests = @ + 1,
                  !.waits = IF rate_limited
                            THEN Append(@, BackoffWait(searcher.attempt)) ELSE @,
                  !.attempt = IF rate_limited THEN @ + 1 ELSE @,
                  !.papers = IF success THEN FormatPapers(resp.data) ELSE <<>>,
                  !.pc = IF rate_limited /\ ~last_attempt THEN "search"
                         ELSE "novelty"]
    /\ UNCHANGED <<app, profiler, call>>

\* novelty_assessment = self._assess_novelty(idea, papers)
AssessNoveltyCall ==
    /\ searcher.pc = "novelty"
    /\ \E out \in NoveltyOutcomes :
         searcher' = [searcher EXCEPT
                        !.novelty_assessment = AssessNovelty(out),
                        !.http = NoHttp,
                        !.reply = out,
                        !.pc = "doability"]
    /\ UNCHANGED <<app, profiler, call>>

\* doability_assessment = self._assess_doability(idea, papers)
AssessDoabilityCall ==
    /\ searcher.pc = "doability"
    /\ \E out \in DoabilityOutcomes :
         searcher' = [searcher EXCEPT
                        !.doability_assessment = AssessDoability(out),
                        !.reply = out,
                        !.pc = "score"]
    /\ UNCHANGED <<app, profiler, call>>

\* the topic match, the composite score (a KeyError when an assessment has
\* no score), the append, the pacing wait, and the next idea
ScoreIdea ==
    /\ searcher.pc = "score"
    /\ LET idea == searcher.ideas[searcher.i]
           has_scores ==
             /\ "novelty_score" \in DOMAIN searcher.novelty_assessment
             /\ "doability_score" \in DOMAIN searcher.doability_assessment
       IN  searcher' =
             IF ~has_scores
             THEN [searcher EXCEPT !.pc = "raised", !.reply = Reply(<<>>)]
             ELSE [searcher EXCEPT
                     !.scored_ideas =
                        Append(@, ScoredItem(idea, searcher.papers,
                                             searcher.novelty_assessment,
                                             searcher.doability_assessment,
                                             CalculateTopicMatch10(idea, searcher.user_topics))),
                     !.paces = Append(@, PacingWait),
                     !.reply = Reply(<<>>),
                     !.i = @ + 1,
                     !.attempt = 0, !.requests = 0, !.waits = <<>>,
                     !.pc = IF searcher.i < Len(searcher.ideas)
                            THEN "search" ELSE "rank"]
    /\ UNCHANGED <<app, profiler, call>>

\* scored_ideas.sort(key=composite_score, reverse=True);
\* top_ideas = self._select_diverse_top_3(scored_ideas)
RankIdeas ==
    /\ searcher.pc = "rank"
    /\ LET sorted == SortDesc(searcher.scored_ideas)
       IN  searcher' = [searcher EXCEPT
                          !.scored_ideas = sorted,
                          !.top_ideas = SelectDiverseTop3(sorted),
                          !.k = 1,
                          !.pc = "synthesize"]
    /\ UNCHANGED <<app, profiler, call>>

\* the mutation of the synthesis loop that starts with the last item
SynthesizeItem_LastFirst ==
    /\ searcher.pc = "synthesize"
    /\ \E out \in SynthesisOutcomes :
         searcher' =
           [searcher EXCEPT
              !.top_ideas[Len(searcher.top_ideas) + 1 - searcher.k] =
                 [key \in DOMAIN @ \cup {"literature_synthesis"} |->
                    IF key = "literature_synthesis"
                    THEN SynthesizeLiterature(out) ELSE @[key]],
              !.k = @ + 1,
              !.pc = IF searcher.k < Len(searcher.top_ideas)
                     THEN "synthesize" ELSE "returned"]
    /\ UNCHANGED <<app, profiler, call>>

\* item['literature_synthesis'] = self._synthesize_literature(...), and
\* the return after the last item
SynthesizeItem ==
    /\ searcher.pc = "synthesize"
    /\ \E out \in SynthesisOutcomes :
         searcher' =
           [searcher EXCEPT
              !.top_ideas[searcher.k] =
                 [key \in DOMAIN @ \cup {"literature_synthesis"} |->
                    IF key = "literature_synthesis"
                    THEN SynthesizeLiterature(out) ELSE @[key]],
              !.k = @ + 1,
              !.pc = IF searcher.k < Len(searcher.top_ideas)
                     THEN "synthesize" ELSE "returned"]
    /\ UNCHANGED <<app, profiler, call>>

SearcherNext ==
    \/ SearchPapersRequest
    \/ AssessNoveltyCall
    \/ AssessDoabilityCall
    \/ ScoreIdea
    \/ RankIdeas
    \/ SynthesizeItem

SearcherSpec == SearcherInit /\ [][SearcherNext]_vars

(* ---------------- single calls of the searcher's helpers ---------------- *)

\* tags of one idea in a call of _calculate_topic_match
MaxTags == 2

\* scored ideas in a call of _select_diverse_top_3
MaxIdeas == 5

\* "NLP", "nlp models", "cv"
TagInputs ==
    { <<"N", "L", "P">>,
      <<"n", "l", "p", " ", "m", "o", "d", "e", "l", "s">>,
      <<"c", "v">> }

\* no topic, one topic, two topics: "nlp"; "NLP models and data"; "cv", "nlp"
HelperTopicInputs ==
    { <<>>,
      << <<"n", "l", "p">> >>,
      << <<"N", "L", "P", " ", "m", "o", "d", "e", "l", "s", " ", "a", "n", "d",
           " ", "d", "a", "t", "a">> >>,
      << <<"c", "v">>, <<"n", "l", "p">> >> }

\* "a b c d e"; "A B C D x": 4 words of the first; "a  b c y": 3 words of
\* each of these; "p q": none
TitleABCDE == <<"a", " ", "b", " ", "c", " ", "d", " ", "e">>

TitleABCDX == <<"A", " ", "B", " ", "C", " ", "D", " ", "x">>

TitleABCY == <<"a", " ", " ", "b", " ", "c", " ", "y">>

TitlePQ == <<"p", " ", "q">>

TitleInputs == {TitleABCDE, TitleABCDX, TitleABCY, TitlePQ}

\* a list as research_ideas sorts it: the composite scores do not rise
SortedItems(titles) ==
    [k \in 1..Len(titles) |->
       ScoredItem([title |-> titles[k], topic_tags |-> <<>>], <<>>,
                  [novelty_score |-> IF k < 5 THEN 5 - (k - 1) ELSE 1],
                  [doability_score |-> 3], 30)]

Call(fn, args) == [pc |-> "call", fn |-> fn, args |-> args, result |-> <<>>]

HelperInit ==
    /\ AppInit
    /\ searcher = NoRun
    /\ profiler = NoRun
    /\ \/ \E novelty \in 1..5, doability \in 1..5, topic10 \in 0..50 :
            call = Call("composite_score", <<novelty, doability, topic10>>)
       \/ \E n \in 0..MaxTags :
            \E tags \in [1..n -> TagInputs], user_topics \in HelperTopicInputs :
            call = Call("_calculate_topic_match",
                        <<[title |-> <<>>, topic_tags |-> tags], user_topics>>)
       \/ \E n \in 0..MaxIdeas :
            \E titles \in [1..n -> TitleInputs] :
            call = Call("_select_diverse_top_3", <<SortedItems(titles)>>)

Return(result) == call' = [call EXCEPT !.pc = "returned", !.result = result]

\* the composite score of one scored idea
ApplyCompositeScore ==
    /\ call.pc = "call" /\ call.fn = "composite_score"
    /\ Return(ScoredItem(IdeaY, <<>>, [novelty_score |-> call.args[1]],
                         [doability_score |-> call.args[2]],
                         call.args[3]).composite100)
    /\ UNCHANGED <<app, searcher, profiler>>

ApplyCalculateTopicMatch ==
    /\ call.pc = "call" /\ call.fn = "_calculate_topic_match"
    /\ Return(CalculateTopicMatch10(call.args[1], call.args[2]))
    /\ UNCHANGED <<app, searcher, profiler>>

ApplySelectDiverseTop3 ==
    /\ call.pc = "call" /\ call.fn = "_select_diverse_top_3"
    /\ Return(SelectDiverseTop3(call.args[1]))
    /\ UNCHANGED <<app, searcher, profiler>>

HelperNext ==
    \/ ApplyCompositeScore
    \/ ApplyCalculateTopicMatch
    \/ ApplySelectDiverseTop3

HelperSpec == HelperInit /\ [][HelperNext]_vars

(* --------------------------- profiler agent ----------------------------- *)

\* tokens in a reply to the profile prompt
MaxReply == 3

ReplyTokens ==
    { "{", "}", "prose", "expertise_level: Postdoc", "research_areas: NLP",
      "research_style: Chaotic" }

\* the pre-selected experience level: absent, empty, or stated
ExperienceInputs == {None, "", "Professor"}

\* if experience_level:
Truthy(x) == x # None /\ x # ""

\* the mutation of the default profile with another expertise level
DefaultProfile_Masters(experience_level) ==
    [ expertise_level |-> "Masters",
      research_areas |-> <<"Machine Learning">>,
      specific_topics |-> <<>>, technical_skills |-> <<>>,
      research_style |-> "Mixed", resource_access |-> "Moderate",
      publication_count |-> 0, h_index |-> 0,
      novelty_preference |-> 5, doability_preference |-> 7 ]

\* the profile of the except clause; the two preferences (0.5 and 0.7) are
\* in tenths
DefaultProfile(experience_level) ==
    [ expertise_level |->
        IF Truthy(experience_level) THEN experience_level ELSE "PhD Student",
      research_areas |-> <<"Machine Learning">>,
      specific_topics |-> <<>>, technical_skills |-> <<>>,
      research_style |-> "Mixed", resource_access |-> "Moderate",
      publication_count |-> 0, h_index |-> 0,
      novelty_preference |-> 5, doability_preference |-> 7 ]

\* the mutation of the override that keeps the inferred profile
WithExpertise_Ignored(profile, experience_level) == profile

\* profile['expertise_level'] = experience_level
WithExpertise(profile, experience_level) ==
    [key \in DOMAIN profile \cup {"expertise_level"} |->
       IF key = "expertise_level" THEN experience_level ELSE profile[key]]

\* the try block of analyze_description and its except clause
ParseProfile(out, experience_level) ==
    IF out.raised THEN DefaultProfile(experience_level)
    ELSE LET content == out.text
             json_start == Find(content, "{")
             json_end == RFind(content, "}") + 1
             profile_json == SubSeq(content, json_start + 1, json_end)
         IN  IF json_start >= 0 /\ json_end > json_start /\ IsJson(profile_json)
             THEN IF Truthy(experience_level)
                  THEN WithExpertise(JsonLoads(profile_json), experience_level)
                  ELSE JsonLoads(profile_json)
             ELSE DefaultProfile(experience_level)

ProfilerInit ==
    /\ AppInit
    /\ searcher = NoRun
    /\ call = NoRun
    /\ \E experience_level \in ExperienceInputs :
         profiler = [ pc |-> "call", experience_level |-> experience_level,
                      reply |-> Raises, result |-> NoDict ]

\* analyze_description(description, experience_level)
AnalyzeDescription ==
    /\ profiler.pc = "call"
    /\ \E out \in {Raises} \cup
                  {Reply(text) : text \in UNION {[1..n -> ReplyTokens] : n \in 0..MaxReply}} :
         profiler' = [profiler EXCEPT
                        !.pc = "returned",
                        !.reply = out,
                        !.result = ParseProfile(out, profiler.experience_level)]
    /\ UNCHANGED <<app, searcher, call>>

ProfilerNext == AnalyzeDescription

ProfilerSpec == ProfilerInit /\ [][ProfilerNext]_vars

(* ------------------ profiler agent: scholar data ------------------------ *)

\* the largest h-index of the scholar data
MaxHIndex == 31

\* dict.get(key, default)
Get(dict, key, default) == IF key \in DOMAIN dict THEN dict[key] ELSE default

\* scholar data with and without an h_index and interests; 2 publications
ScholarInputs ==
    LET publications == <<"p1", "p2">>
        interests == <<"NLP", "CV", "RL", "IR">>
    IN  {[publications |-> publications]}
        \cup {[publications |-> publications, h_index |-> h] : h \in 0..MaxHIndex}
        \cup {[publications |-> publications, interests |-> interests, h_index |-> h] :
                h \in 0..MaxHIndex}

\* the mutation of the thresholds that puts each boundary in the lower band
ScholarExpertise_Inclusive(h_index) ==
    IF h_index <= 5 THEN "PhD Student"
    ELSE IF h_index <= 15 THEN "Postdoc"
    ELSE IF h_index <= 30 THEN "Assistant Professor"
    ELSE "Associate/Full Professor"

\* if h_index < 5: ... elif h_index < 15: ... elif h_index < 30: ... else
ScholarExpertise(h_index) ==
    IF h_index < 5 THEN "PhD Student"
    ELSE IF h_index < 15 THEN "Postdoc"
    ELSE IF h_index < 30 THEN "Assistant Professor"
    ELSE "Associate/Full Professor"

\* the profile of the except clause of analyze_scholar_data
ScholarFallback(scholar_data) ==
    LET h_index == Get(scholar_data, "h_index", 0)
    IN  [ expertise_level |-> ScholarExpertise(h_index),
          research_areas |->
            Take(Get(scholar_data, "interests", <<"Machine Learning">>), 3),
          specific_topics |-> <<>>, technical_skills |-> <<>>,
          research_style |-> "Mixed", resource_access |-> "Moderate",
          publication_count |-> Len(Get(scholar_data, "publications", <<>>)),
          h_index |-> h_index,
          novelty_preference |-> 5, doability_preference |-> 7 ]

\* the try block of analyze_scholar_data and its except clause
ParseScholarProfile(out, scholar_data) ==
    IF out.raised THEN ScholarFallback(scholar_data)
    ELSE LET content == out.text
             json_start == Find(content, "{")
             json_end == RFind(content, "}") + 1
             profile_json == SubSeq(content, json_start + 1, json_end)
         IN  IF json_start >= 0 /\ json_end > json_start /\ IsJson(profile_json)
             THEN JsonLoads(profile_json)
             ELSE ScholarFallback(scholar_data)

ScholarInit ==
    /\ AppInit
    /\ searcher = NoRun
    /\ call = NoRun
    /\ \E scholar_data \in ScholarInputs :
         profiler = [ pc |-> "call", scholar_data |-> scholar_data,
                      reply |-> Raises, result |-> NoDict ]

\* analyze_scholar_data(scholar_data)
AnalyzeScholarData ==
    /\ profiler.pc = "call"
    /\ \E out \in {Raises} \cup
                  {Reply(text) : text \in UNION {[1..n -> ReplyTokens] : n \in 0..MaxReply}} :
         profiler' = [profiler EXCEPT
                        !.pc = "returned",
                        !.reply = out,
                        !.result = ParseScholarProfile(out, profiler.scholar_data)]
    /\ UNCHANGED <<app, searcher, call>>

ScholarNext == AnalyzeScholarData

ScholarSpec == ScholarInit /\ [][ScholarNext]_vars

(* ------------------------------ claims ---------------------------------- *)

\* the order pending < uploaded < parsing < reading < ideas_ready <
\* searching < complete
StatusRank(status) ==
    CASE status = "pending" -> 0
      [] status = "uploaded" -> 1
      [] status = "parsing" -> 2
      [] status = "reading" -> 3
      [] status = "ideas_ready" -> 4
      [] status = "searching" -> 5
      [] status = "complete" -> 6

\* the handler of thread r takes a step
Steps(r) == req'[r] # req[r]

\* the handler of thread r returns in this step
Returns(r) == req[r].pc # "idle" /\ req'[r].pc = "idle"

\* C1: the committed status never moves backward in the order of the
\* states except by moving to error, and the committed progress never
\* decreases while the status is not error.
C1_StatusMonotonic ==
    [][(analysis.exists /\ analysis.status # "error"
          /\ analysis'.status # "error")
         => /\ StatusRank(analysis'.status) >= StatusRank(analysis.status)
            /\ analysis'.progress >= analysis.progress]_vars

\* C2: once a job's status is error, no later step of a read-phase or
\* search-phase invocation changes its status.
C2_ErrorAbsorbing ==
    [][analysis.status = "error" => analysis'.status = "error"]_vars

\* the search handlers that passed the status check and have not returned
PassedSearchCheck ==
    {r \in Slots : req[r].kind = "search"
                     /\ req[r].pc \in {"checked", "searching", "scored"}}

\* C3: of the search-phase invocations running at the same time on one
\* job, at most one passes the status check and goes on to Idea Scoring.
C3_OneSearchPasses == Cardinality(PassedSearchCheck) <= 1

\* C4: the search phase on a job whose status is not ideas_ready returns a
\* client error, issues no external call and leaves the job and its idea
\* records unchanged.
C4_SearchNeedsIdeasReady ==
    [][\A r \in Slots :
         (req[r].kind = "search" /\ req[r].pc = "start" /\ Steps(r)
            /\ analysis.exists /\ analysis.status # "ideas_ready")
         => /\ Returns(r)
            /\ response'.slot = r /\ response'.code = 400
            /\ response'.calls = {}
            /\ analysis' = analysis
            /\ research_ideas' = research_ideas]_vars

C4_Witness ==
    /\ response.kind = "search"
    /\ response.error = "Analysis is not ready for search"
    /\ analysis.status = "complete"

\* C5: the read phase on a job that already has reader_output is rejected
\* and changes neither status, progress, selected_topics nor reader_output.
C5_ReadNeedsNoReaderOutput ==
    [][\A r \in Slots :
         (req[r].kind = "read" /\ req[r].pc = "start" /\ Steps(r)
            /\ analysis.exists /\ analysis.reader_output # <<>>)
         => /\ Returns(r)
            /\ response'.code = 400
            /\ analysis'.status = analysis.status
            /\ analysis'.progress = analysis.progress
            /\ analysis'.selected_topics = analysis.selected_topics
            /\ analysis'.reader_output = analysis.reader_output]_vars

\* C6: the read phase with an empty topics list fails validation before any
\* external call, and the job (status, progress, selected_topics, profile
\* snapshot) is unchanged.
C6_EmptyTopicsRejected ==
    [][\A r \in Slots :
         (req[r].kind = "read" /\ req[r].pc = "start" /\ Steps(r)
            /\ req[r].topics = <<>>)
         => /\ Returns(r)
            /\ response'.slot = r
            /\ response'.code = IF analysis.exists THEN 400 ELSE 404
            /\ response'.calls = {}
            /\ analysis' = analysis
            /\ research_ideas' = research_ideas]_vars

C6_Witness ==
    /\ response.kind = "read"
    /\ response.error = "At least one topic must be selected"
    /\ response.calls = {}
    /\ analysis.status = "uploaded"

\* the selection has not exactly 3 indices, or one outside
\* [0, len(candidates))
BadSelection(selected, candidates) ==
    \/ Len(selected) # 3
    \/ \E k \in 1..Len(selected) :
         selected[k] < 0 \/ selected[k] >= Len(candidates)

\* C7: on a job in ideas_ready, a selection without exactly 3 indices or
\* with an index out of range is answered with a client error and nothing
\* is changed: status ideas_ready, progress 60, no external call, no idea
\* record.
C7_BadSelectionRejected ==
    [][\A r \in Slots :
         (req[r].kind = "search" /\ req[r].pc = "start" /\ Steps(r)
            /\ analysis.status = "ideas_ready"
            /\ BadSelection(req[r].selected_ideas, analysis.reader_output))
         => /\ Returns(r)
            /\ response'.slot = r /\ response'.code = 400
            /\ response'.calls = {}
            /\ analysis' = analysis
            /\ analysis'.status = "ideas_ready" /\ analysis'.progress = 60
            /\ research_ideas' = research_ideas]_vars

C7_Witness ==
    /\ response.kind = "search"
    /\ response.error = "Invalid idea index"
    /\ analysis.status = "ideas_ready"

\* C8: a read-phase invocation that passed validation ends with the job
\* either in ideas_ready with progress 60 and reader_output stored, or in
\* error with an error message; never in parsing or reading.
C8_ReadOutcome ==
    [][\A r \in Slots :
         (req[r].kind = "read" /\ req[r].pc \in {"parsing", "reading"}
            /\ Returns(r))
         => \/ /\ response'.code = 200
               /\ response'.calls = {"extract_text", "analyze_paper"}
               /\ analysis'.status = "ideas_ready"
               /\ analysis'.progress = 60
               /\ analysis'.reader_output # <<>>
            \/ /\ response'.code = 500
               /\ analysis'.status = "error"
               /\ analysis'.error_message # None]_vars

C8_Witness ==
    /\ response.kind = "read" /\ response.code = 500
    /\ response.error = "Failed to extract text from PDF"
    /\ analysis.status = "error"

\* the idea rows a step added
NewRows == SubSeq(research_ideas', Len(research_ideas) + 1, Len(research_ideas'))

\* C9: a search-phase invocation that passed its preconditions ends with
\* the job either complete (progress 100, searcher_output and completed_at
\* set, one idea row per ranked idea with ranks 1..n in ranking order, each
\* with its references) or in error with an error message.
C9_SearchOutcome ==
    [][\A r \in Slots :
         (req[r].kind = "search"
            /\ req[r].pc \in {"checked", "searching", "scored"}
            /\ Returns(r))
         => \/ /\ response'.code = 200
               /\ analysis'.status = "complete"
               /\ analysis'.progress = 100
               /\ analysis'.completed_at
               /\ analysis'.searcher_output # <<>>
               /\ Len(research_ideas') =
                    Len(research_ideas) + Len(analysis'.searcher_output)
               /\ SubSeq(research_ideas', 1, Len(research_ideas))
                    = research_ideas
               /\ \A k \in 1..Len(NewRows) :
                    /\ NewRows[k].rank = k
                    /\ NewRows[k].idea = analysis'.searcher_output[k].idea
                    /\ NewRows[k].references
                         = analysis'.searcher_output[k].papers
               /\ \A k \in 1..(Len(NewRows) - 1) :
                    NewRows[k].composite100 >= NewRows[k + 1].composite100
            \/ /\ response'.code = 500
               /\ analysis'.status = "error"
               /\ analysis'.error_message # None
               /\ research_ideas' = research_ideas]_vars

C9_Witness ==
    /\ response.kind = "search" /\ response.code = 200
    /\ analysis.status = "complete"
    /\ Len(research_ideas) = 3
    /\ research_ideas[1].composite100 > research_ideas[3].composite100

\* C10: in every committed state of a job whose status is not error,
\* progress is the value paired with the status.
C10_ProgressOfStatus ==
    (analysis.exists /\ analysis.status # "error")
      => analysis.progress =
           CASE analysis.status = "pending" -> 0
             [] analysis.status = "uploaded" -> 10
             [] analysis.status = "parsing" -> 20
             [] analysis.status = "reading" -> 40
             [] analysis.status = "ideas_ready" -> 60
             [] analysis.status = "searching" -> 70
             [] analysis.status = "complete" -> 100

C10_Witness == analysis.status = "searching" /\ analysis.progress = 70

\* C11: a phase that moves the job to error leaves the progress as it was
\* committed before the failure: 20 after an extraction failure, 40 after
\* an idea-generation failure, 70 after a scoring failure, when the state
\* the failing handler committed is still the committed one.
C11_ErrorKeepsProgress ==
    [][\A r \in Slots :
         (Returns(r) /\ response'.code = 500)
         => /\ analysis'.status = "error"
            /\ analysis'.progress = analysis.progress
            /\ (req[r].pc = "parsing" /\ analysis.status = "parsing")
                 => analysis'.progress = 20
            /\ (req[r].pc = "reading" /\ analysis.status = "reading")
                 => analysis'.progress = 40
            /\ (req[r].pc \in {"searching", "scored"}
                  /\ analysis.status = "searching")
                 => analysis'.progress = 70]_vars

C11_Witness ==
    /\ response.kind = "search" /\ response.code = 500
    /\ response.calls = {"research_ideas"}
    /\ analysis.status = "error" /\ analysis.progress = 70

\* C12: in a run of research_ideas every failure of a single call (the
\* literature search, or a novelty, doability or synthesis reply that is
\* an exception, no JSON, malformed JSON, or an object without its score)
\* is contained: the run never raises, and it returns all 3 ideas.
C12_SubcallFailuresContained ==
    /\ searcher.pc # "raised"
    /\ searcher.pc = "returned" => Len(searcher.top_ideas) = 3

\* C17: 3 ideas that all get novelty 4 and doability 5 with no user topics
\* have the composite score 4.1 each and are returned in their input order.
AllTied ==
    /\ searcher.user_topics = <<>>
    /\ Len(searcher.scored_ideas) = 3
    /\ \A k \in 1..3 :
         /\ searcher.scored_ideas[k].novelty_assessment["novelty_score"] = 4
         /\ searcher.scored_ideas[k].doability_assessment["doability_score"] = 5

C17_TiesKeepInputOrder ==
    (searcher.pc \in {"synthesize", "returned"} /\ AllTied)
    => /\ Len(searcher.top_ideas) = 3
       /\ \A k \in 1..3 :
            /\ searcher.top_ideas[k].idea = searcher.ideas[k]
            /\ searcher.top_ideas[k].composite100 = 410

C17_Witness == searcher.pc = "returned" /\ AllTied

\* C18: a literature search answered 429, 429 and then a success has
\* waited 2 s and 4 s, returns the papers of the third response (those
\* with an abstract), and goes on to the assessments without raising.
C18_TwoRetriesThenSuccess ==
    [][(/\ searcher.pc = "search" /\ searcher.requests = 2
        /\ searcher'.http.kind = "response" /\ searcher'.http.status = 200)
       => LET data == searcher'.http.data
              kept == {k \in 1..Len(data) : data[k].abstract # ""}
          IN  /\ searcher'.waits = <<2, 4>>
              /\ searcher'.requests = 3
              /\ Len(searcher'.papers) = Cardinality(kept)
              /\ \A k \in kept :
                   \E j \in 1..Len(searcher'.papers) :
                      searcher'.papers[j].title = data[k].title
              /\ searcher'.pc = "novelty"]_vars

C18_Witness ==
    /\ searcher.pc = "novelty" /\ searcher.requests = 3
    /\ searcher.waits = <<2, 4>>
    /\ searcher.http.status = 200 /\ Len(searcher.papers) = 1

\* C19: one call of _search_papers issues at most 3 requests and has
\* returned after the third; the waits after the rate-limited attempts are
\* 2 s, 4 s, 8 s in this order; after 3 rate-limited attempts it has
\* returned the empty list.
C19_SearchBounded ==
    /\ searcher.requests <= 3
    /\ searcher.pc = "search" => searcher.requests < 3
    /\ Len(searcher.waits) <= 3
    /\ searcher.waits = SubSeq(<<2, 4, 8>>, 1, Len(searcher.waits))
    /\ Len(searcher.waits) = 3
         => searcher.pc # "search" /\ searcher.papers = <<>>

C19_Witness ==
    /\ searcher.pc = "novelty" /\ searcher.requests = 3
    /\ searcher.waits = <<2, 4, 8>> /\ searcher.papers = <<>>

Returned_(fn) == call.pc = "returned" /\ call.fn = fn

\* C13: the composite score of a scored idea is 0.3 * novelty +
\* 0.4 * doability + 0.3 * topic match, for novelty and doability in 1..5
\* and a topic match in 0..5 (in tenths): 10 * composite = 3 * novelty +
\* 4 * doability + 3 * topic match, here times 10 again.
C13_CompositeScore ==
    Returned_("composite_score")
    => call.result = 10 * (3 * call.args[1] + 4 * call.args[2]) + 3 * call.args[3]

C13_Witness ==
    Returned_("composite_score") /\ call.args = <<4, 5, 30>> /\ call.result = 410

\* C14: the topic match is 3 when there are no user topics, whatever the
\* tags of the idea, and 2.5 when the idea has no tags and there are topics.
C14_TopicMatchDefaults ==
    Returned_("_calculate_topic_match")
    => /\ call.args[2] = <<>> => call.result = 30
       /\ (call.args[1].topic_tags = <<>> /\ call.args[2] # <<>>)
            => call.result = 25

C14_Witness ==
    /\ Returned_("_calculate_topic_match")
    /\ call.args[1].topic_tags = <<>> /\ call.args[2] = <<>>
    /\ call.result = 30

\* the words two titles share, and the ideas the greedy pass accepts: the
\* first, and each later one that shares at most 3 words with every idea
\* accepted before it, while fewer than 3 are accepted
SharedWords(a, b) == Cardinality(TitleWords(a) \cap TitleWords(b))

Accepted(items) ==
    LET acc[j \in 0..Len(items)] ==
          IF j = 0 THEN {}
          ELSE LET before == acc[j - 1]
               IN  IF /\ Cardinality(before) < 3
                      /\ \A i \in before : SharedWords(items[i], items[j]) <= 3
                   THEN before \cup {j}
                   ELSE before
    IN  acc[Len(items)]

\* C15: of more than 3 sorted ideas the selection returns the accepted
\* ones in score order when there are 3 of them; of ideas titled
\* "a b c d e", "A B C D x", "a  b c y", "p q" and a fifth it returns the
\* first, third and fourth.
C15_DiverseSelection ==
    (Returned_("_select_diverse_top_3") /\ Len(call.args[1]) > 3)
    => LET items == call.args[1]
           acc == Accepted(items)
       IN  /\ 1 \in acc
           /\ Cardinality(acc) = 3
                => /\ Len(call.result) = 3
                   /\ \A k \in 1..3 :
                        \E j \in acc :
                           /\ call.result[k] = items[j]
                           /\ Cardinality({i \in acc : i < j}) = k - 1
           /\ (/\ Len(items) = 5
               /\ items[1].idea.title = TitleABCDE /\ items[2].idea.title = TitleABCDX
               /\ items[3].idea.title = TitleABCY /\ items[4].idea.title = TitlePQ)
                => call.result = <<items[1], items[3], items[4]>>

C15_Witness ==
    /\ Returned_("_select_diverse_top_3") /\ Len(call.args[1]) = 5
    /\ call.args[1][1].idea.title = TitleABCDE
    /\ call.args[1][2].idea.title = TitleABCDX
    /\ call.args[1][3].idea.title = TitleABCY
    /\ call.args[1][4].idea.title = TitlePQ
    /\ call.result = <<call.args[1][1], call.args[1][3], call.args[1][4]>>

\* C16: of 3 or more sorted ideas the selection returns exactly 3, and the
\* first 3 of the list when the greedy pass accepts fewer than 3.
C16_FallbackToTop3 ==
    (Returned_("_select_diverse_top_3") /\ Len(call.args[1]) >= 3)
    => /\ Len(call.result) = 3
       /\ Cardinality(Accepted(call.args[1])) < 3
            => call.result = SubSeq(call.args[1], 1, 3)

C16_Witness ==
    /\ Returned_("_select_diverse_top_3") /\ Len(call.args[1]) > 3
    /\ Cardinality(Accepted(call.args[1])) < 3
    /\ call.result = SubSeq(call.args[1], 1, 3)

\* a reply that holds a JSON object: from its first opening brace to its
\* last closing brace there are only members
Parseable(text) ==
    \E i, j \in 1..Len(text) :
       /\ i < j
       /\ text[i] = "{" /\ \A k \in 1..(i - 1) : text[k] # "{"
       /\ text[j] = "}" /\ \A k \in (j + 1)..Len(text) : text[k] # "}"
       /\ \A k \in (i + 1)..(j - 1) : text[k] \notin {"{", "}", "prose"}

\* C20: when the text-analysis service raises or replies with text that
\* holds no JSON object, analyze_description returns the default profile:
\* 'PhD Student' when no level is stated (the stated level otherwise),
\* ['Machine Learning'], novelty preference 0.5, doability preference 0.7
\* (in tenths), and the other defaults.
C20_DefaultProfile ==
    (/\ profiler.pc = "returned"
     /\ profiler.reply.raised \/ ~Parseable(profiler.reply.text))
    => /\ profiler.result.research_areas = <<"Machine Learning">>
       /\ profiler.result.novelty_preference = 5
       /\ profiler.result.doability_preference = 7
       /\ profiler.experience_level \in {None, ""}
            => profiler.result =
                 [ expertise_level |-> "PhD Student",
                   research_areas |-> <<"Machine Learning">>,
                   specific_topics |-> <<>>, technical_skills |-> <<>>,
                   research_style |-> "Mixed", resource_access |-> "Moderate",
                   publication_count |-> 0, h_index |-> 0,
                   novelty_preference |-> 5, doability_preference |-> 7 ]
       /\ profiler.experience_level \notin {None, ""}
            => profiler.result.expertise_level = profiler.experience_level

C20_Witness ==
    /\ profiler.pc = "returned"
    /\ profiler.reply = Reply(<<"{", "prose", "}">>)
    /\ profiler.experience_level = None
    /\ profiler.result.expertise_level = "PhD Student"

\* C21: whenever a stated experience level is supplied, the returned
\* profile's expertise_level is the stated level, whether the reply was
\* parsed (with any inferred level or none), could not be parsed, or the
\* service raised.
C21_StatedLevelWins ==
    (profiler.pc = "returned" /\ profiler.experience_level \notin {None, ""})
    => /\ "expertise_level" \in DOMAIN profiler.result
       /\ profiler.result["expertise_level"] = profiler.experience_level

C21_Witness ==
    /\ profiler.pc = "returned"
    /\ profiler.experience_level = "Professor"
    /\ profiler.reply = Reply(<<"{", "expertise_level: Postdoc", "}">>)
    /\ profiler.result["expertise_level"] = "Professor"

\* the declared values of the enum fields of a profile
DeclaredValues ==
    [ expertise_level |->
        { "Undergraduate Student", "PhD Student", "Postdoc",
          "Assistant Professor", "Associate/Full Professor",
          "Industry Researcher" },
      research_style |-> {"Empirical", "Theoretical", "Applied", "Mixed"},
      resource_access |-> {"Limited", "Moderate", "Extensive"} ]

\* C22: every profile analyze_description returns, given no stated level,
\* has each enum field (expertise_level, research_style, resource_access)
\* present with one of its declared values, also when the parsed reply
\* omits the field or carries an undeclared value.
C22_EnumFieldsDeclared ==
    (profiler.pc = "returned" /\ profiler.experience_level \in {None, ""})
    => \A field \in DOMAIN DeclaredValues :
          /\ field \in DOMAIN profiler.result
          /\ profiler.result[field] \in DeclaredValues[field]

\* C23: once a job has a profile snapshot, a step that changes the owning
\* user's profile leaves the snapshot as it is.
C23_SnapshotDecoupled ==
    [][(/\ analysis.user_profile_snapshot # None
        /\ user'.profile # user.profile)
       => analysis'.user_profile_snapshot = analysis.user_profile_snapshot]_vars

C23_Witness ==
    /\ analysis.user_profile_snapshot = "v1"
    /\ user.profile = "v2"

\* C24: a literature-search request that times out before the third
\* attempt is retried: the call waits and stays in its loop.
C24_TimeoutRetried ==
    [][(/\ searcher.pc = "search"
        /\ searcher'.http.kind = "exception"
        /\ searcher'.requests < 3)
       => /\ searcher'.pc = "search"
          /\ Len(searcher'.waits) = Len(searcher.waits) + 1]_vars

C26_ScoresInRange ==
    searcher.pc = "returned"
    => \A k \in 1..Len(searcher.top_ideas) :
          /\ searcher.top_ideas[k].novelty_assessment["novelty_score"] \in 1..5
          /\ searcher.top_ideas[k].doability_assessment["doability_score"] \in 1..5
          /\ searcher.top_ideas[k].topic10 \in 0..50

\* the distinct tags of an idea that contain a user topic or lie within
\* one, letter case aside
TagHits(tags, user_topics) ==
    {tag \in {tags[i] : i \in 1..Len(tags)} :
       \E j \in 1..Len(user_topics) :
          \/ Contains(Lower(user_topics[j]), Lower(tag))
          \/ Contains(Lower(tag), Lower(user_topics[j]))}

\* C27: with user topics and tags, the topic match is
\* min(5 * h / |user_topics|, 5) for h the number of distinct tags that
\* hit a topic: a repeated tag counts once.
C27_DistinctTagHits ==
    (/\ Returned_("_calculate_topic_match")
     /\ call.args[1].topic_tags # <<>> /\ call.args[2] # <<>>)
    => LET h == Cardinality(TagHits(call.args[1].topic_tags, call.args[2]))
           score == (50 * h) \div Len(call.args[2])
       IN  call.result = IF score < 50 THEN score ELSE 50

\* C28: a novelty or doability call that raises or replies without a JSON
\* object gives the fallback with score 3 and changes neither the other
\* assessment nor the ideas scored so far; the composite score of the idea
\* is computed from the assessments as they then stand.
C28_FallbackScoreUsed ==
    [][/\ (/\ searcher.pc = "novelty" /\ searcher'.pc = "doability"
           /\ searcher'.reply.raised \/ ~Parseable(searcher'.reply.text))
          => /\ searcher'.novelty_assessment =
                  [ explored |-> "Unknown", maturity |-> "Unknown",
                    gap |-> "Unable to assess", novelty_score |-> 3 ]
             /\ searcher'.doability_assessment = searcher.doability_assessment
             /\ searcher'.scored_ideas = searcher.scored_ideas
       /\ (/\ searcher.pc = "doability" /\ searcher'.pc = "score"
           /\ searcher'.reply.raised \/ ~Parseable(searcher'.reply.text))
          => /\ searcher'.doability_assessment["doability_score"] = 3
             /\ searcher'.doability_assessment["methodology"] = "Unknown"
             /\ searcher'.novelty_assessment = searcher.novelty_assessment
             /\ searcher'.scored_ideas = searcher.scored_ideas
       /\ (searcher.pc = "score" /\ searcher'.pc # "raised")
          => LET n == Len(searcher'.scored_ideas)
                 item == searcher'.scored_ideas[n]
             IN  /\ n = Len(searcher.scored_ideas) + 1
                 /\ SubSeq(searcher'.scored_ideas, 1, n - 1) = searcher.scored_ideas
                 /\ item.novelty_assessment = searcher.novelty_assessment
                 /\ item.doability_assessment = searcher.doability_assessment
                 /\ item.composite100 =
                      30 * searcher.novelty_assessment["novelty_score"]
                      + 40 * searcher.doability_assessment["doability_score"]
                      + 3 * item.topic10]_vars

C28_Witness ==
    /\ searcher.pc = "search" /\ searcher.i = 2 /\ searcher.user_topics = <<>>
    /\ searcher.scored_ideas[1].novelty_assessment["gap"] = "Unable to assess"
    /\ searcher.scored_ideas[1].doability_assessment["doability_score"] = 5
    /\ searcher.scored_ideas[1].composite100 = 380

\* C29: every pacing wait is 3 s; an idea is searched and assessed only
\* after the waits of all ideas before it; and a wait follows every idea
\* whose processing has ended, with or without a failure.
C29_PacingAfterEveryIdea ==
    /\ \A k \in 1..Len(searcher.paces) : searcher.paces[k] = 3
    /\ searcher.pc \in {"search", "novelty", "doability", "score"}
         => Len(searcher.paces) = searcher.i - 1
    /\ searcher.pc \in {"rank", "synthesize", "returned"}
         => Len(searcher.paces) = Len(searcher.ideas)
    /\ searcher.pc = "raised" => Len(searcher.paces) = searcher.i

\* an item of top_ideas without its synthesis
Unsynthesized(item) ==
    [key \in DOMAIN item \ {"literature_synthesis"} |-> item[key]]

\* C30: while ideas are searched and assessed, the ideas scored so far
\* are those before the current one, in input order, and nothing is
\* selected; once ranking has happened every idea is scored, the list is
\* in descending score order, and the syntheses go to the selected ideas
\* only, from rank 1 on.
C30_RunOrder ==
    /\ searcher.pc \in {"search", "novelty", "doability", "score", "raised"}
         => /\ Len(searcher.scored_ideas) = searcher.i - 1
            /\ \A k \in 1..(searcher.i - 1) :
                 searcher.scored_ideas[k].idea = searcher.ideas[k]
            /\ searcher.top_ideas = <<>>
    /\ searcher.pc = "rank"
         => /\ Len(searcher.scored_ideas) = Len(searcher.ideas)
            /\ searcher.top_ideas = <<>>
    /\ searcher.pc \in {"synthesize", "returned"}
         => /\ Len(searcher.scored_ideas) = Len(searcher.ideas)
            /\ \A k \in 1..(Len(searcher.scored_ideas) - 1) :
                 searcher.scored_ideas[k].composite100
                   >= searcher.scored_ideas[k + 1].composite100
            /\ searcher.pc = "returned" => searcher.k = Len(searcher.top_ideas) + 1
            /\ \A j \in 1..Len(searcher.top_ideas) :
                 /\ ("literature_synthesis" \in DOMAIN searcher.top_ideas[j])
                      <=> j < searcher.k
                 /\ Unsynthesized(searcher.top_ideas[j]) = searcher.scored_ideas[j]
            /\ \A j \in 1..Len(searcher.scored_ideas) :
                 "literature_synthesis" \notin DOMAIN searcher.scored_ideas[j]

C30_Witness ==
    /\ searcher.pc = "synthesize" /\ searcher.k = 2
    /\ "literature_synthesis" \in DOMAIN searcher.top_ideas[1]
    /\ searcher.top_ideas[1].idea # searcher.ideas[1]

\* C31: of 3 or fewer sorted ideas the selection returns every idea once,
\* in the order of the list (non-increasing composite score); the title
\* filter drops none, also when the titles share more than 3 words.
C31_SmallListsReturnedWhole ==
    (Returned_("_select_diverse_top_3") /\ Len(call.args[1]) <= 3)
    => /\ call.result = call.args[1]
       /\ \A k \in 1..(Len(call.result) - 1) :
            call.result[k].composite100 >= call.result[k + 1].composite100

C31_Witness ==
    /\ Returned_("_select_diverse_top_3") /\ Len(call.args[1]) = 3
    /\ SharedWords(call.args[1][1], call.args[1][2]) > 3
    /\ SharedWords(call.args[1][1], call.args[1][3]) > 3
    /\ Len(call.result) = 3

\* C32: when the text-analysis call fails in analyze_scholar_data, the
\* expertise_level of the fallback profile follows from the h-index alone
\* (0 when missing): below 5 'PhD Student', 5..14 'Postdoc', 15..29
\* 'Assistant Professor', 30 and above 'Associate/Full Professor'.
C32_ScholarFallbackLevel ==
    (/\ profiler.pc = "returned"
     /\ profiler.reply.raised \/ ~Parseable(profiler.reply.text))
    => LET h == IF "h_index" \in DOMAIN profiler.scholar_data
                THEN profiler.scholar_data["h_index"] ELSE 0
       IN  /\ h \in 0..4 => profiler.result["expertise_level"] = "PhD Student"
           /\ h \in 5..14 => profiler.result["expertise_level"] = "Postdoc"
           /\ h \in 15..29
                => profiler.result["expertise_level"] = "Assistant Professor"
           /\ h >= 30
                => profiler.result["expertise_level"] = "Associate/Full Professor"

C32_Witness ==
    /\ profiler.pc = "returned" /\ profiler.reply.raised
    /\ "interests" \in DOMAIN profiler.scholar_data
    /\ profiler.scholar_data["h_index"] = 30
    /\ profiler.result["expertise_level"] = "Associate/Full Professor"

\* C33: a job owns at most 3 ResearchIdea rows, and at most one row per
\* rank.
C33_IdeaRowsWrittenOnce ==
    /\ Len(research_ideas) <= 3
    /\ \A i, j \in 1..Len(research_ideas) :
         research_ideas[i].rank = research_ideas[j].rank => i = j

\* C34: a search phase that fails after its checks (in research_ideas or
\* while the rows are built) commits the status error and the message and
\* nothing else: searcher_output and completed_at are as before (unset if
\* they were unset) and no ResearchIdea row is added.
C34_FailedSearchLeavesNothing ==
    [][\A r \in Slots :
         (/\ Returns(r) /\ req[r].kind = "search"
          /\ req[r].pc \in {"searching", "scored"}
          /\ response'.code = 500)
         => /\ analysis'.status = "error"
            /\ analysis'.error_message # None
            /\ analysis' = [analysis EXCEPT
                              !.status = "error",
                              !.error_message = analysis'.error_message]
            /\ research_ideas' = research_ideas]_vars

C34_Witness ==
    /\ response.kind = "search" /\ response.code = 500
    /\ analysis.status = "error" /\ analysis.error_message # None
    /\ analysis.searcher_output = <<>> /\ ~analysis.completed_at
    /\ research_ideas = <<>>

\* C35: in every committed state, status ideas_ready, searching or
\* complete implies that reader_output is present, and status complete
\* implies that searcher_output and completed_at are present.
C35_StatusImpliesOutputs ==
    /\ analysis.status \in {"ideas_ready", "searching", "complete"}
         => analysis.reader_output # <<>>
    /\ analysis.status = "complete"
         => analysis.searcher_output # <<>> /\ analysis.completed_at

C35_Witness ==
    /\ analysis.status = "complete"
    /\ analysis.reader_output # <<>> /\ analysis.searcher_output # <<>>
    /\ analysis.completed_at

\* C36: every handler that has committed parsing, reading or searching
\* eventually returns, and a job in parsing, reading or searching
\* eventually is in ideas_ready, complete or error.
C36_PhasesFinish ==
    /\ \A r \in Slots :
         (req[r].pc \in {"parsing", "reading", "searching", "scored"})
           ~> (req[r].pc = "idle")
    /\ (analysis.status \in {"parsing", "reading", "searching"})
         ~> (analysis.status \in {"ideas_ready", "complete", "error"})

C36_Witness ==
    /\ analysis.status = "searching"
    /\ \E r \in Slots : req[r].pc = "scored"

====
